---- MODULE Spec2Model ----
(***************************************************************************)
(* Covid-Tracker (src/src/App.js): the series aligner processHistoricalData *)
(* and the trend forecaster forecastData, modelled as operators over the    *)
(* values the JavaScript code manipulates.                                  *)
(*                                                                          *)
(* Representation.                                                          *)
(*  - A date-key string is a record [fmt, y, m, d]: fmt = "iso" stands for  *)
(*    the text "YYYY-MM-DD", fmt = "mdy" for the text "M/D/YY" (the form    *)
(*    the disease.sh timelines use).  Two keys are the same string iff the  *)
(*    records are equal.                                                    *)
(*  - A JavaScript Date is its time value, in minutes since 1970-01-01 UTC  *)
(*    (the code only handles whole minutes).                                *)
(*  - An object used as a map is [present, entries]: present = FALSE is     *)
(*    null/undefined, entries is the list of own properties in insertion    *)
(*    order (the order Object.keys returns).                                *)
(*  - A call's outcome is [threw, value]: threw = TRUE is an exception.     *)
(***************************************************************************)
EXTENDS Integers, Sequences, FiniteSets, TLC

VARIABLES
    tz,             \* the time zone of the machine running the code
    casesData,      \* processHistoricalData: 1st argument
    recoveredData,  \* processHistoricalData: 2nd argument
    vaccineData,    \* processHistoricalData: 3rd argument
    processedData,  \* processHistoricalData: outcome of the call
    historicalData, \* forecastData: 1st argument
    daysToForecast, \* forecastData: 2nd argument
    forecasted,     \* forecastData: outcome of the call
    pc,             \* "start" before the call, "done" after it
    countryData,        \* App: state set by setCountryData
    forecastChartData,  \* App: value of the forecastChartData memo
    combinedChartData,  \* App: value of the combinedChartData memo
    countryResponse,    \* fetchDataForCountry: outcome of the country request
    historicalResponse, \* fetchDataForCountry: outcome of the historical request
    vaccineResponse,    \* fetchDataForCountry: outcome of the vaccine request
    fetched,            \* fetchDataForCountry: outcome of the call
    selectedCountry,    \* App: state set by setSelectedCountry
    compareCountry,     \* App: state set by setCompareCountry
    compareCountryData, \* App: state set by setCompareCountryData
    loading,            \* App: state set by setLoading
    error,              \* App: state set by setError
    lastUpdated,        \* App: state set by setLastUpdated, as the number of
                        \* the getData invocation that set it
    calls,              \* App: the getData invocations, in order of their start
    messages,           \* AIAssistant: state set by setMessages
    input,              \* AIAssistant: state set by setInput
    isSending,          \* AIAssistant: state set by setIsSending
    requests            \* AIAssistant: the requests awaiting their reply

vars == <<tz, casesData, recoveredData, vaccineData, processedData,
          historicalData, daysToForecast, forecasted, pc,
          countryData, forecastChartData, combinedChartData,
          countryResponse, historicalResponse, vaccineResponse, fetched,
          selectedCountry, compareCountry, compareCountryData, loading,
          error, lastUpdated, calls,
          messages, input, isSending, requests>>

appVars == <<countryData, forecastChartData, combinedChartData>>

fetchVars == <<countryResponse, historicalResponse, vaccineResponse, fetched>>

effectVars == <<selectedCountry, compareCountry, compareCountryData, loading,
                error, lastUpdated, calls>>

assistantVars == <<messages, input, isSending, requests>>

\* The variables of the code around the two functions
ioVars == <<fetchVars, effectVars, assistantVars>>

----------------------------------------------------------------------------
(* Bounds of the model *)

MaxKeys == 3       \* properties in the three input objects together
MaxVal == 1        \* largest metric value in an aligner input
MaxHistory == 11   \* points in a forecaster history
MaxHorizon == 3    \* largest daysToForecast
MaxCases == 49     \* level of the stepped histories
MaxInvocations == 3 \* getData invocations in a behaviour
MaxInput == 2      \* characters in the assistant's input field
MaxMessages == 3   \* messages after which nothing more is sent

----------------------------------------------------------------------------
(* Sequence helpers *)

Range(s) == {s[i] : i \in DOMAIN s}

Front(s) == SubSeq(s, 1, Len(s) - 1)

Last(s) == s[Len(s)]

\* Sequences over S of length 0..n without repeated elements
RECURSIVE DistinctSeqs(_, _)
DistinctSeqs(S, n) ==
    IF n = 0 THEN {<<>>}
    ELSE LET shorter == DistinctSeqs(S, n - 1)
         IN  shorter \cup
             {Append(s, x) : <<s, x>> \in
                 {p \in shorter \X S : Len(p[1]) = n - 1 /\ p[2] \notin Range(p[1])}}

----------------------------------------------------------------------------
(* ECMAScript Date arithmetic (proleptic Gregorian calendar) *)

\* MakeDay(y, m, d): day number of the civil date (years from 1 on); d may
\* exceed the month's length, the excess carries into the following months
DaysFromCivil(y, m, d) ==
    LET yy == IF m <= 2 THEN y - 1 ELSE y
        mp == IF m > 2 THEN m - 3 ELSE m + 9
    IN  365 * yy + yy \div 4 - yy \div 100 + yy \div 400
          + (153 * mp + 2) \div 5 + d - 1 - 719468

\* YearFromTime / MonthFromTime / DateFromTime of a day number
CivilFromDays(z) ==
    LET zz  == z + 719468
        era == zz \div 146097
        doe == zz - era * 146097
        yoe == (doe - doe \div 1460 + doe \div 36524 - doe \div 146096) \div 365
        doy == doe - (365 * yoe + yoe \div 4 - yoe \div 100)
        mp  == (5 * doy + 2) \div 153
        d   == doy - (153 * mp + 2) \div 5 + 1
        m   == IF mp < 10 THEN mp + 3 ELSE mp - 9
        y   == yoe + era * 400 + (IF m <= 2 THEN 1 ELSE 0)
    IN  [y |-> y, m |-> m, d |-> d]

\* A time zone is [before, after, at]: the offset from UTC (minutes) is
\* `before' until the UTC instant `at' and `after' from then on.
\* LocalTime(t) = t + LocalTZA(t, true)
LocalTime(t, zone) ==
    t + (IF t >= zone.at THEN zone.after ELSE zone.before)

\* UTC(t) = t - LocalTZA(t, false); a skipped or repeated local time is read
\* with the offset in force before the transition
UTCOf(tl, zone) ==
    IF tl - zone.before >= zone.at /\ tl - zone.after >= zone.at
    THEN tl - zone.after
    ELSE tl - zone.before

\* new Date(key).getTime(): the date-only ISO form is UTC midnight, any other
\* form is local midnight
ParseDate(key, zone) ==
    LET midnight == DaysFromCivil(key.y, key.m, key.d) * 1440
    IN  IF key.fmt = "iso" THEN midnight ELSE UTCOf(midnight, zone)

\* toISOString().split('T')[0]: the UTC calendar date, as "YYYY-MM-DD"
ToISODate(t) ==
    LET c == CivilFromDays(t \div 1440)
    IN  [fmt |-> "iso", y |-> c.y, m |-> c.m, d |-> c.d]

\* The calendar date a key denotes, as a day number
CalendarDay(key) == DaysFromCivil(key.y, key.m, key.d)

----------------------------------------------------------------------------
(* Objects used as maps *)

Null == [present |-> FALSE, entries |-> <<>>]

\* Object.keys(data || {})
ObjectKeys(data) ==
    IF data.present THEN [i \in DOMAIN data.entries |-> data.entries[i].key]
    ELSE <<>>

HasKey(data, key) == \E i \in DOMAIN data.entries : data.entries[i].key = key

\* data[key] for an own property
Get(data, key) ==
    data.entries[CHOOSE i \in DOMAIN data.entries : data.entries[i].key = key].val

\* data ? data[date] || 0 : 0   (undefined and 0 are falsy)
ValueOrZero_one(data, date) ==
    IF ~data.present THEN 0
    ELSE IF HasKey(data, date) /\ Get(data, date) # 0 THEN Get(data, date)
    ELSE 1

ValueOrZero_first(data, date) ==
    IF ~data.present THEN 0
    ELSE IF data.entries # <<>> /\ data.entries[1].val # 0 THEN data.entries[1].val
    ELSE 0

ValueOrZero(data, date) ==
    IF ~data.present THEN 0
    ELSE IF HasKey(data, date) /\ Get(data, date) # 0 THEN Get(data, date)
    ELSE 0

----------------------------------------------------------------------------
(* processHistoricalData *)

\* What a sort() without the comparator does: the keys ordered as text
CompareDates_text(a, b, zone) ==
    LET ka == IF a.fmt = "iso" THEN <<a.y, a.m, a.d>> ELSE <<a.m, a.d, a.y>>
        kb == IF b.fmt = "iso" THEN <<b.y, b.m, b.d>> ELSE <<b.m, b.d, b.y>>
    IN  IF ka[1] # kb[1] THEN ka[1] - kb[1]
        ELSE IF ka[2] # kb[2] THEN ka[2] - kb[2]
        ELSE ka[3] - kb[3]

\* (a, b) => new Date(a) - new Date(b)
CompareDates(a, b, zone) == ParseDate(a, zone) - ParseDate(b, zone)

\* Array.prototype.sort with the comparator above.  The sort is stable: a
\* key goes after every key that does not compare greater than it.
RECURSIVE InsertSorted(_, _, _)
InsertSorted(s, x, zone) ==
    IF s = <<>> THEN <<x>>
    ELSE IF CompareDates(Head(s), x, zone) > 0 THEN <<x>> \o s
    ELSE <<Head(s)>> \o InsertSorted(Tail(s), x, zone)

RECURSIVE SortDates(_, _)
SortDates(s, zone) ==
    IF s = <<>> THEN <<>>
    ELSE InsertSorted(SortDates(Front(s), zone), Last(s), zone)

\* new Set(array) without the Set: every occurrence is kept
Dedup_none(s) == s

\* new Set(array), read back with Array.from: first occurrences, in order
Dedup(s) ==
    LET first == {i \in DOMAIN s : \A j \in 1..(i - 1) : s[j] # s[i]}
        pos == [i \in first |-> Cardinality({j \in first : j <= i})]
    IN  [k \in 1..Cardinality(first) |-> s[CHOOSE i \in first : pos[i] = k]]

\* The dates of lines 61-65
UnionDates(cD, rD, vD, zone) ==
    Dedup(SortDates(ObjectKeys(cD) \o ObjectKeys(rD) \o ObjectKeys(vD), zone))

\* Records that leave out the field of an absent input
AlignedRecords_sparse(cD, rD, vD, zone) ==
    LET dates == UnionDates(cD, rD, vD, zone)
    IN  [i \in DOMAIN dates |->
            IF vD.present
            THEN [date      |-> dates[i],
                  cases     |-> ValueOrZero(cD, dates[i]),
                  recovered |-> ValueOrZero(rD, dates[i]),
                  vaccines  |-> ValueOrZero(vD, dates[i])]
            ELSE [date      |-> dates[i],
                  cases     |-> ValueOrZero(cD, dates[i]),
                  recovered |-> ValueOrZero(rD, dates[i])]]

\* The records of lines 67-72
AlignedRecords(cD, rD, vD, zone) ==
    LET dates == UnionDates(cD, rD, vD, zone)
    IN  [i \in DOMAIN dates |->
            [date      |-> dates[i],
             cases     |-> ValueOrZero(cD, dates[i]),
             recovered |-> ValueOrZero(rD, dates[i]),
             vaccines  |-> ValueOrZero(vD, dates[i])]]

\* A version without the `|| {}' guards: Object.keys(null) throws
processHistoricalData_unguarded(cD, rD, vD, zone) ==
    IF cD.present /\ rD.present /\ vD.present
    THEN [threw |-> FALSE, value |-> AlignedRecords(cD, rD, vD, zone)]
    ELSE [threw |-> TRUE, value |-> <<>>]

processHistoricalData(cD, rD, vD, zone) ==
    [threw |-> FALSE, value |-> AlignedRecords(cD, rD, vD, zone)]

----------------------------------------------------------------------------
(* Inputs *)

UTCZone == [before |-> 0, after |-> 0, at |-> 0]

\* Asia/Kolkata: UTC+5:30, no daylight saving
Kolkata == [before |-> 330, after |-> 330, at |-> 0]

\* America/New_York around 2021-03-14 02:00 EST, when the clocks go forward
NewYork == [before |-> -300, after |-> -240,
            at |-> DaysFromCivil(2021, 3, 14) * 1440 + 7 * 60]

TimeZones == {UTCZone, Kolkata, NewYork}

\* The aligner's environments: ISO keys do not depend on the zone
AlignZones(fmt) == IF fmt = "iso" THEN {Kolkata} ELSE {NewYork}

Formats == {"iso", "mdy"}

AlignDates == {<<2020, 12, 31>>, <<2021, 1, 1>>, <<2021, 3, 14>>}

DateKeysOf(fmt, dates) ==
    {[fmt |-> fmt, y |-> c[1], m |-> c[2], d |-> c[3]] : c \in dates}

\* The objects with exactly k properties, keyed by dates of one format; an
\* absent input counts as having none
SeriesOfSize(fmt, k) ==
    (IF k = 0 THEN {Null} ELSE {}) \cup
    UNION {{[present |-> TRUE,
             entries |-> [i \in DOMAIN ks |-> [key |-> ks[i], val |-> vs[i]]]] :
               vs \in [DOMAIN ks -> 0..MaxVal]} :
             ks \in {q \in DistinctSeqs(DateKeysOf(fmt, AlignDates), k) : Len(q) = k}}

SeriesBySize ==
    [fmt \in Formats |-> [k \in 0..MaxKeys |-> SeriesOfSize(fmt, k)]]

\* How MaxKeys properties at most are shared out among the three inputs
AlignSizes ==
    {ks \in (0..MaxKeys) \X (0..MaxKeys) \X (0..MaxKeys) :
        ks[1] + ks[2] + ks[3] <= MaxKeys}

NoResult == [threw |-> FALSE, value |-> <<>>]

\* useState(null): no country data yet
NoCountry == [present |-> FALSE, historicalChartData |-> <<>>]

\* No request has been made
NoResponse == [rejected |-> FALSE, status |-> 0, body |-> <<>>]

\* fetchDataForCountry is not running
FetchIdle ==
    /\ countryResponse = NoResponse
    /\ historicalResponse = NoResponse
    /\ vaccineResponse = NoResponse
    /\ fetched = [threw |-> FALSE, value |-> <<>>, error |-> ""]

\* useState(null): no error
NoError == [present |-> FALSE, message |-> ""]

\* The App before its effects have run
EffectIdle ==
    /\ selectedCountry = "India"
    /\ compareCountry = ""
    /\ compareCountryData = NoCountry
    /\ loading = TRUE
    /\ error = NoError
    /\ lastUpdated = 0
    /\ calls = <<>>

\* The assistant before its first message
AssistantIdle ==
    /\ messages = <<>>
    /\ input = <<>>
    /\ isSending = FALSE
    /\ requests = <<>>

\* The code around the two functions is not running
IoIdle == FetchIdle /\ EffectIdle /\ AssistantIdle

----------------------------------------------------------------------------
(* The aligner applied to every input *)

InitAlign ==
    /\ \E fmt \in Formats, ks \in AlignSizes :
          /\ tz \in AlignZones(fmt)
          /\ casesData \in SeriesBySize[fmt][ks[1]]
          /\ recoveredData \in SeriesBySize[fmt][ks[2]]
          /\ vaccineData \in SeriesBySize[fmt][ks[3]]
    /\ processedData = NoResult
    /\ historicalData = Null
    /\ daysToForecast = 0
    /\ forecasted = NoResult
    /\ pc = "start"
    /\ countryData = NoCountry
    /\ forecastChartData = <<>>
    /\ combinedChartData = <<>>
    /\ IoIdle

ProcessHistoricalData ==
    /\ pc = "start"
    /\ processedData' = processHistoricalData(casesData, recoveredData, vaccineData, tz)
    /\ pc' = "done"
    /\ UNCHANGED <<tz, casesData, recoveredData, vaccineData,
                   historicalData, daysToForecast, forecasted>>
    /\ UNCHANGED appVars
    /\ UNCHANGED ioVars

NextAlign == ProcessHistoricalData

SpecAlign == InitAlign /\ [][NextAlign]_vars

----------------------------------------------------------------------------
(* forecastData *)

\* if (!historicalData || historicalData.length < 10) return []
MinHistory == 10

\* A rounding that takes a half down
Round_halfDown(p, q) == -((q - 2 * p) \div (2 * q))

\* Math.round of the rational p / q, q > 0: the nearest integer, a half going up
Round(p, q) == (2 * p + q) \div (2 * q)

\* The sums of the forEach loop over the first n points (x is the 0-based index)
RECURSIVE SumX(_)
SumX(n) == IF n = 0 THEN 0 ELSE SumX(n - 1) + (n - 1)

RECURSIVE SumY(_, _)
SumY(h, n) == IF n = 0 THEN 0 ELSE SumY(h, n - 1) + h[n].cases

\* A loop that counts x from 1: sumXY += (i + 1) * d.cases
RECURSIVE SumXY_oneBased(_, _)
SumXY_oneBased(h, n) ==
    IF n = 0 THEN 0 ELSE SumXY_oneBased(h, n - 1) + n * h[n].cases

RECURSIVE SumXY(_, _)
SumXY(h, n) == IF n = 0 THEN 0 ELSE SumXY(h, n - 1) + (n - 1) * h[n].cases

\* A loop that adds the index instead of its square: sumX2 += i
RECURSIVE SumX2_linear(_)
SumX2_linear(n) == IF n = 0 THEN 0 ELSE SumX2_linear(n - 1) + (n - 1)

RECURSIVE SumX2(_)
SumX2(n) == IF n = 0 THEN 0 ELSE SumX2(n - 1) + (n - 1) * (n - 1)

\* m = SlopeNum / SlopeDen
SlopeNum(h) == Len(h) * SumXY(h, Len(h)) - SumX(Len(h)) * SumY(h, Len(h))

SlopeDen(h) == Len(h) * SumX2(Len(h)) - SumX(Len(h)) * SumX(Len(h))

\* m * x + b with b = (sumY - m * sumX) / n, as the fraction [num, den], den > 0.
\* The code computes m and b in IEEE doubles; the rounded result can differ
\* from the exact one only where the exact value is a half, and on the
\* histories enumerated below the two agree.
FittedValue(h, x) ==
    LET n == Len(h)
    IN  [num |-> SlopeNum(h) * x * n + SumY(h, n) * SlopeDen(h) - SlopeNum(h) * SumX(n),
         den |-> SlopeDen(h) * n]

\* A loop that forgets the clamp: Math.round(m * (n + i - 1) + b)
ForecastedCases_unclamped(h, i) ==
    LET v == FittedValue(h, Len(h) + i - 1)
    IN  Round(v.num, v.den)

\* A loop that extrapolates one step too far: m * (n + i) + b
ForecastedCases_shifted(h, i) ==
    LET v == FittedValue(h, Len(h) + i)
        r == Round(v.num, v.den)
    IN  IF r > 0 THEN r ELSE 0

\* Math.max(0, Math.round(m * (n + i - 1) + b))
ForecastedCases(h, i) ==
    LET v == FittedValue(h, Len(h) + i - 1)
        r == Round(v.num, v.den)
    IN  IF r > 0 THEN r ELSE 0

\* nextDate = new Date(lastDate); nextDate.setDate(lastDate.getDate() + i):
\* the local calendar fields of lastDate with the day of the month moved by i
NextDate(lastDate, i, zone) ==
    LET local == LocalTime(lastDate, zone)
        c == CivilFromDays(local \div 1440)
        day == DaysFromCivil(c.y, c.m, c.d + i)
    IN  UTCOf(day * 1440 + (local % 1440), zone)

\* A loop that fills the records from the far end of the horizon
ForecastLoop_fromEnd(h, count, zone) ==
    LET lastDate == ParseDate(h[Len(h)].date, zone)
    IN  [i \in 1..count |->
            [date |-> ToISODate(NextDate(lastDate, count - i + 1, zone)),
             cases |-> ForecastedCases(h, count - i + 1),
             isForecast |-> TRUE]]

\* The for loop of lines 211-220 for i = 1..count
ForecastLoop(h, count, zone) ==
    LET lastDate == ParseDate(h[Len(h)].date, zone)
    IN  [i \in 1..count |->
            [date |-> ToISODate(NextDate(lastDate, i, zone)),
             cases |-> ForecastedCases(h, i),
             isForecast |-> TRUE]]

\* A guard with the wrong floor
TooShort_five(hD) == ~hD.present \/ Len(hD.entries) < 5

\* !historicalData || historicalData.length < 10
TooShort(hD) == ~hD.present \/ Len(hD.entries) < MinHistory

\* for (let i = 1; i < daysToForecast; i++): one record short
LoopCount_exclusive(days) == IF days > 1 THEN days - 1 ELSE 0

\* for (let i = 1; i <= daysToForecast; i++): the number of iterations
LoopCount(days) == IF days > 0 THEN days ELSE 0

\* new Date(text) is an Invalid Date (time value NaN) when the text is not a date
InvalidDate(key) == key.fmt \notin {"iso", "mdy"}

\* getDate and setDate leave an Invalid Date invalid, and toISOString throws
\* a RangeError on it, in the first iteration of the loop
ThrowsRangeError(h, count) == count > 0 /\ InvalidDate(h[Len(h)].date)

forecastData(hD, days, zone) ==
    IF TooShort(hD) THEN [threw |-> FALSE, value |-> <<>>]
    ELSE IF ThrowsRangeError(hD.entries, LoopCount(days))
    THEN [threw |-> TRUE, value |-> <<>>]
    ELSE [threw |-> FALSE, value |-> ForecastLoop(hD.entries, LoopCount(days), zone)]

----------------------------------------------------------------------------
(* The forecaster applied to every input *)

\* The last historical date: before a year end, a month end, the end of
\* February, and the New York clock change
LastDates == {<<2020, 12, 30>>, <<2021, 1, 30>>, <<2021, 2, 27>>, <<2021, 3, 12>>}

\* Histories on a line a + d * i (the first is the example of the
\* specification, the second falls to 0) ...
Lines == {[a |-> 100, d |-> 10], [a |-> 100, d |-> -10], [a |-> 3, d |-> 1]}

\* ... and histories that step from one level to another
Levels == {0, 1, MaxCases}

CaseSeqs(n) ==
    {cs \in {[i \in 1..n |-> l.a + l.d * (i - 1)] : l \in Lines} :
        \A i \in 1..n : cs[i] >= 0}
    \cup
    {[i \in 1..n |-> IF i <= p THEN lv[1] ELSE lv[2]] :
        p \in 0..n, lv \in Levels \X Levels}

\* n consecutive days ending at the civil date last, with the given counts
HistoryOf(fmt, last, cs) ==
    LET n == Len(cs)
        lastDay == DaysFromCivil(last[1], last[2], last[3])
        key(i) == LET c == CivilFromDays(lastDay - (n - i))
                  IN  [fmt |-> fmt, y |-> c.y, m |-> c.m, d |-> c.d]
    IN  [present |-> TRUE,
         entries |-> [i \in 1..n |-> [date |-> key(i), cases |-> cs[i]]]]

Histories ==
    {Null} \cup
    {HistoryOf(fmt, last, cs) :
        fmt \in Formats, last \in LastDates,
        cs \in UNION {CaseSeqs(n) : n \in 0..MaxHistory}}

Horizons == -1..MaxHorizon

InitForecast ==
    /\ tz \in TimeZones
    /\ historicalData \in Histories
    /\ daysToForecast \in Horizons
    /\ forecasted = NoResult
    /\ casesData = Null
    /\ recoveredData = Null
    /\ vaccineData = Null
    /\ processedData = NoResult
    /\ pc = "start"
    /\ countryData = NoCountry
    /\ forecastChartData = <<>>
    /\ combinedChartData = <<>>
    /\ IoIdle

ForecastData ==
    /\ pc = "start"
    /\ forecasted' = forecastData(historicalData, daysToForecast, tz)
    /\ pc' = "done"
    /\ UNCHANGED <<tz, casesData, recoveredData, vaccineData, processedData,
                   historicalData, daysToForecast>>
    /\ UNCHANGED appVars
    /\ UNCHANGED ioVars

NextForecast == ForecastData

SpecForecast == InitForecast /\ [][NextForecast]_vars

----------------------------------------------------------------------------
(* The forecaster applied to histories with any date keys *)

\* A key that is not the text of a date, e.g. "n/a"
MalformedKey == [fmt |-> "text", y |-> 0, m |-> 0, d |-> 0]

\* The history with the date of its last point replaced
WithLastDate(hD, key) ==
    [hD EXCEPT !.entries[Len(hD.entries)].date = key]

AnyHistories ==
    Histories \cup
    {WithLastDate(hD, MalformedKey) : hD \in {x \in Histories : x.entries # <<>>}}

InitForecastAny ==
    /\ tz \in TimeZones
    /\ historicalData \in AnyHistories
    /\ daysToForecast \in Horizons
    /\ forecasted = NoResult
    /\ casesData = Null
    /\ recoveredData = Null
    /\ vaccineData = Null
    /\ processedData = NoResult
    /\ pc = "start"
    /\ countryData = NoCountry
    /\ forecastChartData = <<>>
    /\ combinedChartData = <<>>
    /\ IoIdle

SpecForecastAny == InitForecastAny /\ [][NextForecast]_vars

----------------------------------------------------------------------------
(* App: the forecastChartData memo *)

\* forecastData(historicalCases, 14)
ChartHorizon == 14

\* daysToForecast = 7, the default of the parameter
DefaultHorizon == 7

\* A map that keeps the whole aligned record
HistoricalCases_unrestricted(cD) == cD.historicalChartData

\* countryData.historicalChartData.map(d => ({ date: d.date, cases: d.cases }))
HistoricalCases(cD) ==
    [i \in DOMAIN cD.historicalChartData |->
        [date |-> cD.historicalChartData[i].date,
         cases |-> cD.historicalChartData[i].cases]]

\* The call of line 463
ChartForecast(cD, zone) ==
    forecastData([present |-> TRUE, entries |-> HistoricalCases(cD)], ChartHorizon, zone)

\* A memo that leaves out the horizon: forecastData(historicalCases)
ComputeForecastChart_defaultHorizon(cD, zone) ==
    IF ~cD.present THEN <<>>
    ELSE HistoricalCases(cD) \o
         forecastData([present |-> TRUE, entries |-> HistoricalCases(cD)],
                      DefaultHorizon, zone).value

\* The callback of the useMemo of lines 460-465
ComputeForecastChart(cD, zone) ==
    IF ~cD.present THEN <<>>
    ELSE HistoricalCases(cD) \o ChartForecast(cD, zone).value

\* The properties an entry of the comparison chart gets from record d of the
\* country called name: [name + ' Cases'], [name + ' Vaccinations'],
\* [name + ' Recovered'].  A property name is the pair <<name, suffix>>.
CountryFields(name, d) ==
    [k \in {name} \X {" Cases", " Vaccinations", " Recovered"} |->
        IF k[2] = " Cases" THEN d.cases
        ELSE IF k[2] = " Vaccinations" THEN d.vaccines
        ELSE d.recovered]

\* Assignment of the properties of g to an object with the properties f
Assign(f, g) ==
    [k \in DOMAIN f \cup DOMAIN g |-> IF k \in DOMAIN g THEN g[k] ELSE f[k]]

\* data.find(d => d.date === date): the index of the first entry, 0 if none
FindDate(data, date) ==
    IF \E i \in DOMAIN data : data[i].date = date
    THEN CHOOSE i \in DOMAIN data :
            data[i].date = date /\ \A j \in 1..(i - 1) : data[j].date # date
    ELSE 0

\* The body of the forEach of lines 439-454 for the record compD
MergeRecord(data, name, compD) ==
    LET i == FindDate(data, compD.date)
    IN  IF i # 0
        THEN [data EXCEPT ![i].fields = Assign(@, CountryFields(name, compD))]
        ELSE Append(data, [date |-> compD.date, fields |-> CountryFields(name, compD)])

RECURSIVE MergeRecords(_, _, _)
MergeRecords(data, name, records) ==
    IF records = <<>> THEN data
    ELSE CHOOSE merged \in
             {MergeRecords(next, name, Tail(records)) :
                 next \in {MergeRecord(data, name, Head(records))}} : TRUE

\* data.sort((a, b) => new Date(a.date) - new Date(b.date)), a stable sort
RECURSIVE InsertEntry(_, _, _)
InsertEntry(s, x, zone) ==
    IF s = <<>> THEN <<x>>
    ELSE IF CompareDates(Head(s).date, x.date, zone) > 0 THEN <<x>> \o s
    ELSE <<Head(s)>> \o InsertEntry(Tail(s), x, zone)

RECURSIVE SortEntries(_, _)
SortEntries(s, zone) ==
    IF s = <<>> THEN <<>>
    ELSE CHOOSE sorted \in
             {InsertEntry(front, Last(s), zone) :
                 front \in {SortEntries(Front(s), zone)}} : TRUE

\* The callback of the useMemo of lines 428-457
CombinedChartData(cD, compD, selected, compare, zone) ==
    IF ~cD.present THEN <<>>
    ELSE LET data == [i \in DOMAIN cD.historicalChartData |->
                         [date |-> cD.historicalChartData[i].date,
                          fields |-> CountryFields(selected, cD.historicalChartData[i])]]
         IN  SortEntries(IF compD.present
                         THEN MergeRecords(data, compare, compD.historicalChartData)
                         ELSE data, zone)

\* The lengths of the country data: empty, one day, and around the threshold
ChartLengths == {0, 1} \cup ((MinHistory - 1)..MaxHistory)

\* The case counts of the country data: the lines, at these lengths
ChartCaseSeqs ==
    UNION {{cs \in {[i \in 1..n |-> l.a + l.d * (i - 1)] : l \in Lines} :
               \A i \in 1..n : cs[i] >= 0} : n \in ChartLengths}

\* The aligned records of n consecutive days ending at the civil date last
ChartDataOf(fmt, last, cs) ==
    LET hD == HistoryOf(fmt, last, cs)
    IN  [present |-> TRUE,
         historicalChartData |->
            [i \in DOMAIN cs |->
                [date |-> hD.entries[i].date, cases |-> cs[i],
                 recovered |-> cs[i] \div 2, vaccines |-> i]]]

\* The last days of the country data
ChartLastDates == {<<2020, 12, 30>>, <<2021, 3, 12>>}

CountryDatas ==
    {ChartDataOf(fmt, last, cs) :
        fmt \in Formats, last \in ChartLastDates, cs \in ChartCaseSeqs}

InitChart ==
    /\ tz \in TimeZones
    /\ countryData = NoCountry
    /\ forecastChartData = ComputeForecastChart(NoCountry, tz)
    /\ combinedChartData = <<>>
    /\ historicalData = Null
    /\ daysToForecast = 0
    /\ forecasted = NoResult
    /\ casesData = Null
    /\ recoveredData = Null
    /\ vaccineData = Null
    /\ processedData = NoResult
    /\ pc = "start"
    /\ IoIdle

\* setCountryData(mainCountryData) and the render that follows it: the memo
\* is recomputed, calling forecastData(historicalCases, 14)
SetCountryData ==
    \E d \in CountryDatas :
        /\ countryData' = d
        /\ forecastChartData' = ComputeForecastChart(d, tz)
        /\ combinedChartData' = CombinedChartData(d, compareCountryData,
                                                  selectedCountry, compareCountry, tz)
        /\ historicalData' = [present |-> TRUE, entries |-> HistoricalCases(d)]
        /\ daysToForecast' = ChartHorizon
        /\ forecasted' = ChartForecast(d, tz)
        /\ UNCHANGED <<tz, casesData, recoveredData, vaccineData, processedData, pc>>
        /\ UNCHANGED ioVars

\* forecastData(historicalCases): the same call without a horizon
ForecastDataDefault ==
    /\ historicalData.present
    /\ daysToForecast' = DefaultHorizon
    /\ forecasted' = forecastData(historicalData, DefaultHorizon, tz)
    /\ UNCHANGED <<tz, casesData, recoveredData, vaccineData, processedData,
                   historicalData, pc>>
    /\ UNCHANGED appVars
    /\ UNCHANGED ioVars

NextChart == SetCountryData \/ ForecastDataDefault

SpecChart == InitChart /\ [][NextChart]_vars

----------------------------------------------------------------------------
(* fetchDataForCountry *)

\* A response is [rejected, status, body]: rejected = TRUE is a fetch whose
\* promise rejects (no answer from the network), otherwise status is the
\* HTTP status and body the parsed JSON of the answer.

\* countryResponse.status === 404
NotFound == 404

\* response.ok: the status is in the range 200-299
Ok(response) == ~response.rejected /\ response.status \in 200..299

\* No timeline in the body
NoTimeline == [present |-> FALSE, cases |-> Null, recovered |-> Null]

\* historicalTimelineData of lines 88-96
HistoricalTimeline(hR) ==
    IF Ok(hR) /\ hR.body.present THEN hR.body ELSE NoTimeline

\* historicalVaccineData of lines 99-112
VaccineTimeline(vR) ==
    IF Ok(vR) /\ vR.body.present THEN vR.body ELSE Null

\* totalVaccinatedCount of lines 100-109: the value of the last key
TotalVaccinated(vR) ==
    LET t == VaccineTimeline(vR)
    IN  IF t.present /\ Len(t.entries) > 0 THEN t.entries[Len(t.entries)].val ELSE 0

\* The message of the error raised by lines 78-84, "" if none is
CountryError(cR) ==
    IF cR.rejected THEN "Failed to fetch"
    ELSE IF Ok(cR) THEN ""
    ELSE IF cR.status = NotFound THEN "Country data not found"
    ELSE "Failed to fetch data"

\* An await of fetch that rejects raises inside the try block
FetchRejects(cR, hR, vR) == cR.rejected \/ hR.rejected \/ vR.rejected

fetchDataForCountry(cR, hR, vR, zone) ==
    IF CountryError(cR) # ""
    THEN [threw |-> TRUE, value |-> <<>>, error |-> CountryError(cR)]
    ELSE IF FetchRejects(cR, hR, vR)
    THEN [threw |-> TRUE, value |-> <<>>, error |-> "Failed to fetch"]
    ELSE [threw |-> FALSE,
          value |-> [present |-> TRUE,
                     countryInfo |-> cR.body,
                     totalVaccinated |-> TotalVaccinated(vR),
                     historicalChartData |->
                        processHistoricalData(HistoricalTimeline(hR).cases,
                                              HistoricalTimeline(hR).recovered,
                                              VaccineTimeline(vR), zone).value],
          error |-> ""]

\* The statuses of the answers: success, not found, server error
Statuses == {200, NotFound, 500}

CountryResponses ==
    {[rejected |-> TRUE, status |-> 0, body |-> <<>>]} \cup
    {[rejected |-> FALSE, status |-> st, body |-> "India"] : st \in Statuses}

\* The series of a timeline: absent, or with fewer keys than MaxKeys
FetchSeries == [fmt \in Formats |-> UNION {SeriesBySize[fmt][k] : k \in 0..(MaxKeys - 1)}]

\* The series of the historical timeline: absent, or with at most one key
FetchShortSeries == [fmt \in Formats |-> SeriesBySize[fmt][0] \cup SeriesBySize[fmt][1]]

HistoricalResponses(fmt) ==
    {[rejected |-> TRUE, status |-> 0, body |-> NoTimeline]} \cup
    {[rejected |-> FALSE, status |-> st, body |-> NoTimeline] : st \in Statuses} \cup
    {[rejected |-> FALSE, status |-> 200,
      body |-> [present |-> TRUE, cases |-> c, recovered |-> r]] :
        c \in FetchShortSeries[fmt], r \in FetchShortSeries[fmt]}

VaccineResponses(fmt) ==
    {[rejected |-> TRUE, status |-> 0, body |-> Null]} \cup
    {[rejected |-> FALSE, status |-> st, body |-> Null] : st \in Statuses} \cup
    {[rejected |-> FALSE, status |-> 200, body |-> v] :
        v \in FetchSeries[fmt] \ {Null}}

InitFetch ==
    /\ \E fmt \in Formats :
          /\ tz \in AlignZones(fmt)
          /\ countryResponse \in CountryResponses
          /\ historicalResponse \in HistoricalResponses(fmt)
          /\ vaccineResponse \in VaccineResponses(fmt)
    /\ fetched = [threw |-> FALSE, value |-> <<>>, error |-> ""]
    /\ casesData = Null
    /\ recoveredData = Null
    /\ vaccineData = Null
    /\ processedData = NoResult
    /\ historicalData = Null
    /\ daysToForecast = 0
    /\ forecasted = NoResult
    /\ pc = "start"
    /\ countryData = NoCountry
    /\ forecastChartData = <<>>
    /\ combinedChartData = <<>>
    /\ EffectIdle
    /\ AssistantIdle

FetchDataForCountry ==
    /\ pc = "start"
    /\ fetched' = fetchDataForCountry(countryResponse, historicalResponse,
                                      vaccineResponse, tz)
    /\ pc' = "done"
    /\ UNCHANGED <<tz, casesData, recoveredData, vaccineData, processedData,
                   historicalData, daysToForecast, forecasted>>
    /\ UNCHANGED appVars
    /\ UNCHANGED <<countryResponse, historicalResponse, vaccineResponse>>
    /\ UNCHANGED effectVars
    /\ UNCHANGED assistantVars

NextFetch == FetchDataForCountry

SpecFetch == InitFetch /\ [][NextFetch]_vars

----------------------------------------------------------------------------
(* App: the getData effect *)

\* The countries of the selectors
Countries == {"India", "Brazil"}

\* The answers of the country request of an invocation
AppResponses(country) ==
    {[rejected |-> TRUE, status |-> 0, body |-> <<>>]} \cup
    {[rejected |-> FALSE, status |-> st, body |-> country] : st \in {200, NotFound}}

\* A request that finds nothing
Unavailable(body) == [rejected |-> FALSE, status |-> NotFound, body |-> body]

\* A series with the keys "M/D/YY" of the dates, each with the value val
AppSeries(dates, val) ==
    [present |-> TRUE,
     entries |-> [i \in DOMAIN dates |->
                    [key |-> [fmt |-> "mdy", y |-> dates[i][1], m |-> dates[i][2],
                              d |-> dates[i][3]],
                     val |-> val]]]

\* The answers of the historical and the vaccine request for a country:
\* two days for India with vaccinations, two later days for Brazil without
AppHistorical(country) ==
    [rejected |-> FALSE, status |-> 200,
     body |-> IF country = "India"
              THEN [present |-> TRUE,
                    cases |-> AppSeries(<<<<2020, 12, 31>>, <<2021, 1, 1>>>>, 2),
                    recovered |-> AppSeries(<<<<2020, 12, 31>>, <<2021, 1, 1>>>>, 1)]
              ELSE [present |-> TRUE,
                    cases |-> AppSeries(<<<<2021, 1, 1>>, <<2021, 3, 14>>>>, 4),
                    recovered |-> AppSeries(<<<<2021, 1, 1>>, <<2021, 3, 14>>>>, 3)]]

AppVaccine(country) ==
    IF country = "India"
    THEN [rejected |-> FALSE, status |-> 200,
          body |-> AppSeries(<<<<2021, 1, 1>>>>, 5)]
    ELSE Unavailable(Null)

\* await fetchDataForCountry(country), the country request answered by cR
AppFetch(cR, zone) ==
    fetchDataForCountry(cR, AppHistorical(cR.body), AppVaccine(cR.body), zone)

\* The ways fetchDataForCountry(country) can settle, by country and zone
Outcomes ==
    [country \in Countries, zone \in TimeZones |->
        {AppFetch(cR, zone) : cR \in AppResponses(country)}]

AppOutcomes(country, zone) == Outcomes[country, zone]

\* err.message || "Failed to load data for the selected country(ies)."
ErrorMessage(message) ==
    IF message # "" THEN message ELSE "Failed to load data"

\* compareCountry && compareCountry !== selectedCountry
Comparing(call) ==
    call.compareCountry # "" /\ call.compareCountry # call.selectedCountry

\* An invocation of getData is awaiting a fetch
InFlight(call) == call.pc \in {"main", "comp"}

SetPc(id, to) == [calls EXCEPT ![id].pc = to]

InitApp ==
    /\ tz \in TimeZones
    /\ selectedCountry = "India"
    /\ compareCountry = ""
    /\ countryData = NoCountry
    /\ compareCountryData = NoCountry
    /\ loading = TRUE
    /\ error = NoError
    /\ lastUpdated = 0
    /\ calls = <<>>
    /\ forecastChartData = ComputeForecastChart(NoCountry, tz)
    /\ combinedChartData = <<>>
    /\ casesData = Null
    /\ recoveredData = Null
    /\ vaccineData = Null
    /\ processedData = NoResult
    /\ historicalData = Null
    /\ daysToForecast = 0
    /\ forecasted = NoResult
    /\ pc = "start"
    /\ FetchIdle
    /\ AssistantIdle

\* The steps of the App leave the variables of the function calls alone
AppFrame ==
    /\ UNCHANGED <<tz, casesData, recoveredData, vaccineData, processedData,
                   historicalData, daysToForecast, forecasted, pc>>
    /\ UNCHANGED fetchVars
    /\ UNCHANGED assistantVars

\* The render that follows a step: the two memos are recomputed
Render ==
    /\ forecastChartData' = ComputeForecastChart(countryData', tz)
    /\ combinedChartData' = CombinedChartData(countryData', compareCountryData',
                                              selectedCountry', compareCountry', tz)

\* getData() up to its first await, with the selectedCountry and
\* compareCountry of the render that created it
GetData(selected, compare) ==
    /\ Len(calls) < MaxInvocations
    /\ loading' = TRUE
    /\ error' = NoError
    /\ calls' = Append(calls, [selectedCountry |-> selected,
                               compareCountry |-> compare, pc |-> "main"])
    /\ UNCHANGED <<countryData, compareCountryData, lastUpdated>>

\* The effect runs on mount
Mount ==
    /\ calls = <<>>
    /\ GetData(selectedCountry, compareCountry)
    /\ UNCHANGED <<selectedCountry, compareCountry>>
    /\ AppFrame
    /\ Render

\* onChange of the country selector, and the effect that follows the render
SetSelectedCountry ==
    /\ calls # <<>>
    /\ \E c \in Countries \ {selectedCountry} :
          /\ selectedCountry' = c
          /\ GetData(c, compareCountry)
    /\ UNCHANGED compareCountry
    /\ AppFrame
    /\ Render

\* onChange of the comparison selector, and the effect that follows the render
SetCompareCountry ==
    /\ calls # <<>>
    /\ \E c \in ({""} \cup (Countries \ {selectedCountry})) \ {compareCountry} :
          /\ compareCountry' = c
          /\ GetData(selectedCountry, c)
    /\ UNCHANGED selectedCountry
    /\ AppFrame
    /\ Render

\* setInterval(getData, 300000) of the latest effect
TimerFires ==
    /\ calls # <<>>
    /\ GetData(selectedCountry, compareCountry)
    /\ UNCHANGED <<selectedCountry, compareCountry>>
    /\ AppFrame
    /\ Render

\* Lines 406 and 411 of invocation id
Complete(id) ==
    /\ lastUpdated' = id
    /\ loading' = FALSE
    /\ calls' = SetPc(id, "done")
    /\ UNCHANGED error

\* A handler that clears the data it could not refresh
Fail_clearing(id, message) ==
    /\ error' = [present |-> TRUE, message |-> ErrorMessage(message)]
    /\ loading' = FALSE
    /\ calls' = SetPc(id, "failed")
    /\ countryData' = NoCountry
    /\ UNCHANGED <<compareCountryData, lastUpdated>>

\* Lines 407-411 of invocation id
Fail(id, message) ==
    /\ error' = [present |-> TRUE, message |-> ErrorMessage(message)]
    /\ loading' = FALSE
    /\ calls' = SetPc(id, "failed")
    /\ UNCHANGED <<countryData, compareCountryData, lastUpdated>>

\* The fetch of the main country of invocation id returns
MainSucceeds(id) ==
    /\ calls[id].pc = "main"
    /\ \E r \in AppOutcomes(calls[id].selectedCountry, tz) :
          /\ ~r.threw
          /\ countryData' = r.value
    /\ IF Comparing(calls[id])
       THEN /\ calls' = SetPc(id, "comp")
            /\ UNCHANGED <<compareCountryData, lastUpdated, loading, error>>
       ELSE /\ compareCountryData' = NoCountry
            /\ Complete(id)
    /\ UNCHANGED <<selectedCountry, compareCountry>>
    /\ AppFrame
    /\ Render

\* The fetch of the main country of invocation id throws
MainFails(id) ==
    /\ calls[id].pc = "main"
    /\ \E r \in AppOutcomes(calls[id].selectedCountry, tz) :
          /\ r.threw
          /\ Fail(id, r.error)
    /\ UNCHANGED <<selectedCountry, compareCountry>>
    /\ AppFrame
    /\ Render

\* The fetch of the comparison country of invocation id returns
CompSucceeds(id) ==
    /\ calls[id].pc = "comp"
    /\ \E r \in AppOutcomes(calls[id].compareCountry, tz) :
          /\ ~r.threw
          /\ compareCountryData' = r.value
    /\ Complete(id)
    /\ UNCHANGED <<countryData, selectedCountry, compareCountry>>
    /\ AppFrame
    /\ Render

\* The fetch of the comparison country of invocation id throws
CompFails(id) ==
    /\ calls[id].pc = "comp"
    /\ \E r \in AppOutcomes(calls[id].compareCountry, tz) :
          /\ r.threw
          /\ Fail(id, r.error)
    /\ UNCHANGED <<selectedCountry, compareCountry>>
    /\ AppFrame
    /\ Render

NextApp ==
    \/ Mount
    \/ SetSelectedCountry
    \/ SetCompareCountry
    \/ TimerFires
    \/ \E id \in DOMAIN calls : MainSucceeds(id)
    \/ \E id \in DOMAIN calls : MainFails(id)
    \/ \E id \in DOMAIN calls : CompSucceeds(id)
    \/ \E id \in DOMAIN calls : CompFails(id)

SpecApp == InitApp /\ [][NextApp]_vars

----------------------------------------------------------------------------
(* AIAssistant *)

\* A text is the sequence of its characters; the texts of the component
\* itself are taken as one character each.

\* The characters the user types
Chars == {" ", "a"}

RECURSIVE TextsOfLength(_)
TextsOfLength(n) ==
    IF n = 0 THEN {<<>>}
    ELSE {Append(t, c) : t \in TextsOfLength(n - 1), c \in Chars}

\* The values of the input field
Inputs == UNION {TextsOfLength(n) : n \in 0..MaxInput}

RECURSIVE TrimStart(_)
TrimStart(text) ==
    IF text # <<>> /\ Head(text) = " " THEN TrimStart(Tail(text)) ELSE text

RECURSIVE TrimEnd(_)
TrimEnd(text) ==
    IF text # <<>> /\ text[Len(text)] = " "
    THEN TrimEnd(SubSeq(text, 1, Len(text) - 1)) ELSE text

\* String.prototype.trim
Trim(text) == TrimEnd(TrimStart(text))

\* A guard that compares the input itself: input === ''
Blank_untrimmed(text) == text = <<>>

\* input.trim() === ''
Blank(text) == Trim(text) = <<>>

SorryText == <<"Sorry, I could not get a response. Please try again.">>

ConnectErrorText == <<"Error: Could not connect to the AI assistant.">>

\* What the request to the model API comes to: a reply with a text, a reply
\* without candidates, or an exception of fetch or response.json()
ApiOutcomes ==
    {[kind |-> "reply", text |-> <<"o", "k">>],
     [kind |-> "empty", text |-> <<>>],
     [kind |-> "error", text |-> <<>>]}

\* The message appended by lines 257-265
AssistantMessage(outcome) ==
    [role |-> "assistant",
     text |-> IF outcome.kind = "reply" THEN outcome.text
              ELSE IF outcome.kind = "empty" THEN SorryText
              ELSE ConnectErrorText]

\* chatHistory of lines 240-241
ChatHistory(msgs, text) ==
    [i \in DOMAIN msgs |-> [role |-> msgs[i].role, parts |-> msgs[i].text]]
        \o <<[role |-> "user", parts |-> text]>>

\* The App's variables, which the assistant leaves alone
AssistantFrame ==
    /\ UNCHANGED <<tz, casesData, recoveredData, vaccineData, processedData,
                   historicalData, daysToForecast, forecasted, pc>>
    /\ UNCHANGED appVars
    /\ UNCHANGED fetchVars
    /\ UNCHANGED effectVars

InitAssistant ==
    /\ tz \in TimeZones
    /\ AssistantIdle
    /\ casesData = Null
    /\ recoveredData = Null
    /\ vaccineData = Null
    /\ processedData = NoResult
    /\ historicalData = Null
    /\ daysToForecast = 0
    /\ forecasted = NoResult
    /\ pc = "start"
    /\ countryData = NoCountry
    /\ forecastChartData = <<>>
    /\ combinedChartData = <<>>
    /\ FetchIdle
    /\ EffectIdle

\* onChange of the input field, which is disabled while isSending
SetInput ==
    /\ ~isSending
    /\ \E text \in Inputs \ {input} : input' = text
    /\ UNCHANGED <<messages, isSending, requests>>
    /\ AssistantFrame

\* sendMessage up to its await, called by the Send button (disabled while
\* isSending) or by the Enter key (when !isSending)
SendMessage ==
    /\ ~isSending
    /\ Len(messages) < MaxMessages
    /\ IF Blank(input)
       THEN UNCHANGED <<messages, input, isSending, requests>>
       ELSE /\ messages' = Append(messages, [role |-> "user", text |-> input])
            /\ input' = <<>>
            /\ isSending' = TRUE
            /\ requests' = Append(requests, ChatHistory(messages, input))
    /\ AssistantFrame

\* sendMessage after its await: the request has come to an outcome
ReceiveReply ==
    /\ requests # <<>>
    /\ \E outcome \in ApiOutcomes :
          messages' = Append(messages, AssistantMessage(outcome))
    /\ isSending' = FALSE
    /\ requests' = Tail(requests)
    /\ UNCHANGED input
    /\ AssistantFrame

NextAssistant == SetInput \/ SendMessage \/ ReceiveReply

SpecAssistant == InitAssistant /\ [][NextAssistant]_vars

\* Every request comes to an outcome after some time
SpecAssistantFair == SpecAssistant /\ WF_vars(ReceiveReply)

----------------------------------------------------------------------------
(* Properties of processHistoricalData (checked under SpecAlign) *)

\* The set of own keys of an input; an absent input has none
KeySet(data) == {data.entries[i].key : i \in DOMAIN data.entries}

AllKeys == KeySet(casesData) \cup KeySet(recoveredData) \cup KeySet(vaccineData)

Aligned == pc = "done" /\ ~processedData.threw

Records == processedData.value

\* C1 - Union completeness: the dates of the returned records are exactly
\* the union of the keys of the present inputs, and there are as many records
\* as distinct keys (no key appears in two records).
C1_UnionCompleteness ==
    pc = "done" =>
        /\ ~processedData.threw
        /\ {Records[i].date : i \in DOMAIN Records} = AllKeys
        /\ Len(Records) = Cardinality(AllKeys)

\* C1 witness: one input absent, a key shared by two inputs and another key
\* held by one input only
C1_Witness ==
    /\ Aligned
    /\ ~vaccineData.present
    /\ KeySet(casesData) \cap KeySet(recoveredData) # {}
    /\ KeySet(casesData) \ KeySet(recoveredData) # {}
    /\ Len(Records) = 2

\* C2 - Zero fill: a metric field is 0 whenever its series is absent or
\* lacks the record's date; in particular a date held by exactly one series
\* has its two other fields equal to 0.
C2_ZeroFill ==
    pc = "done" =>
        \A i \in DOMAIN Records :
            LET r == Records[i]
            IN  /\ r.date \notin KeySet(casesData) => r.cases = 0
                /\ r.date \notin KeySet(recoveredData) => r.recovered = 0
                /\ r.date \notin KeySet(vaccineData) => r.vaccines = 0

\* C2 witness: a date held by the cases series only, with a non-zero value,
\* while one other series is absent and the other present without the date
C2_Witness ==
    /\ Aligned
    /\ ~recoveredData.present
    /\ vaccineData.present /\ vaccineData.entries # <<>>
    /\ \E i \in DOMAIN Records :
          /\ Records[i].date \in KeySet(casesData) \ KeySet(vaccineData)
          /\ Records[i].cases # 0
          /\ Records[i].recovered = 0
          /\ Records[i].vaccines = 0

\* C3 - Value pass-through: for every record and every series that holds the
\* record's date, the series' field of the record is the value the series
\* holds at that date.
C3_PassThrough ==
    pc = "done" =>
        \A i \in DOMAIN Records :
            LET r == Records[i]
                holds(data, v) ==
                    \A j \in DOMAIN data.entries :
                        data.entries[j].key = r.date => data.entries[j].val = v
            IN  /\ holds(casesData, r.cases)
                /\ holds(recoveredData, r.recovered)
                /\ holds(vaccineData, r.vaccines)

\* C3 witness: a series holding two dates with different values, and a date
\* held by two series with different values
C3_Witness ==
    /\ Aligned
    /\ Len(casesData.entries) = 2
    /\ casesData.entries[1].val # casesData.entries[2].val
    /\ \E i \in DOMAIN Records :
          /\ Records[i].date \in KeySet(casesData) \cap KeySet(recoveredData)
          /\ Records[i].cases # Records[i].recovered

\* C4 - Aligned sort order: the records are in strictly ascending order of
\* the calendar date their keys denote (so no two denote the same date).
C4_SortedByCalendarDate ==
    pc = "done" =>
        \A i, j \in DOMAIN Records :
            i < j => CalendarDay(Records[i].date) < CalendarDay(Records[j].date)

\* C4 witness: three records from keys interleaved across the three series,
\* given out of order, in the M/D/YY form whose text order is not date order
C4_Witness ==
    /\ Aligned
    /\ Len(Records) = 3
    /\ Records[1].date.fmt = "mdy"
    /\ casesData.present /\ recoveredData.present /\ vaccineData.present
    /\ \E i \in DOMAIN casesData.entries, j \in DOMAIN recoveredData.entries,
          k \in DOMAIN vaccineData.entries :
          /\ CalendarDay(casesData.entries[i].key) > CalendarDay(vaccineData.entries[k].key)
          /\ CalendarDay(vaccineData.entries[k].key) > CalendarDay(recoveredData.entries[j].key)

\* C5 - All-absent input: with the three series absent the call raises no
\* error and returns the empty sequence.
C5_AllAbsent ==
    (pc = "done" /\ ~casesData.present /\ ~recoveredData.present /\ ~vaccineData.present)
        => (~processedData.threw /\ processedData.value = <<>>)

\* C5 witness: the call has returned for three absent inputs
C5_Witness ==
    /\ Aligned
    /\ casesData = Null /\ recoveredData = Null /\ vaccineData = Null

----------------------------------------------------------------------------
(* Properties of forecastData (checked under SpecForecast) *)

Forecast == forecasted.value

History == historicalData.entries

\* The call has returned for a history of at least 10 points
LongHistoryDone ==
    pc = "done" /\ historicalData.present /\ Len(History) >= 10

\* The example of the specification: cases[i] = 100 + 10 * i for i = 0..9
ExampleHistory ==
    /\ historicalData.present
    /\ Len(History) = 10
    /\ \A i \in 1..10 : History[i].cases = 100 + 10 * (i - 1)

\* C6 - Forecast floor: for an absent history or one of fewer than 10
\* points the call returns the empty sequence, whatever the horizon.
C6_ForecastFloor ==
    (pc = "done" /\ (~historicalData.present \/ Len(History) < 10))
        => (~forecasted.threw /\ Forecast = <<>>)

\* C6 witness: the call has returned for a history of 9 points and a
\* positive horizon
C6_Witness ==
    /\ pc = "done"
    /\ historicalData.present /\ Len(History) = 9
    /\ daysToForecast = 3
    /\ Forecast = <<>>

\* C7 as stated - Forecast length: for a history of at least 10 points the
\* call returns exactly h records, for every integer horizon h.
C7_LengthIsHorizon ==
    LongHistoryDone => Len(Forecast) = daysToForecast

\* C7 amended - for a history of at least 10 points the call returns exactly
\* h records for every horizon h >= 0, and no record for a negative horizon.
C7_ForecastLength ==
    LongHistoryDone =>
        /\ ~forecasted.threw
        /\ daysToForecast >= 0 => Len(Forecast) = daysToForecast
        /\ daysToForecast < 0 => Forecast = <<>>

\* C7 witness: three records returned for horizon 3 and a history of 10 points
C7_Witness ==
    /\ LongHistoryDone
    /\ Len(History) = 10
    /\ daysToForecast = 3
    /\ Len(Forecast) = 3

\* C8 - Non-negativity: every cases value of every returned record is an
\* integer >= 0.
C8_NonNegative ==
    pc = "done" => \A k \in DOMAIN Forecast : Forecast[k].cases \in Nat

\* C8 witness: a falling history whose fitted line is below zero at a
\* forecast step; the record of that step carries 0
C8_Witness ==
    /\ LongHistoryDone
    /\ History[1].cases > History[Len(History)].cases
    /\ \E k \in DOMAIN Forecast :
          /\ FittedValue(History, Len(History) + k - 1).num < 0
          /\ Forecast[k].cases = 0

\* C9 - Date continuity: the k-th record's date is the last historical date
\* plus exactly k calendar days, whatever the local time zone.
C9_DateContinuity ==
    LongHistoryDone =>
        \A k \in DOMAIN Forecast :
            CalendarDay(Forecast[k].date) = CalendarDay(History[Len(History)].date) + k

\* C10 as stated - for the example history and horizon 3 the case values are
\* 130, 140, 150.
C10_ExampleAsStated ==
    (pc = "done" /\ ExampleHistory /\ daysToForecast = 3)
        => [k \in DOMAIN Forecast |-> Forecast[k].cases] = <<130, 140, 150>>

\* C10 amended - for the example history and horizon 3 the case values are
\* 200, 210, 220, in that order (the line continued at indices 10, 11, 12).
C10_ExampleContinuesLine ==
    (pc = "done" /\ ExampleHistory /\ daysToForecast = 3)
        => [k \in DOMAIN Forecast |-> Forecast[k].cases] = <<200, 210, 220>>

\* C10 witness: the call has returned three records for the example
C10_Witness ==
    /\ pc = "done"
    /\ ExampleHistory
    /\ daysToForecast = 3
    /\ Len(Forecast) = 3

\* The history lies exactly on the line a + d * i through its first two points
LineStart == History[1].cases

LineStep == History[2].cases - History[1].cases

LinearHistory ==
    \A i \in DOMAIN History : History[i].cases = LineStart + LineStep * (i - 1)

\* C11 - Linear extrapolation: for a history of n >= 10 points on a line
\* a + d * i the fit has slope d and intercept a, and the k-th forecast value
\* is max(0, a + d * (n + k - 1)) for k = 1..horizon.
C11_LinearExtrapolation ==
    (LongHistoryDone /\ LinearHistory) =>
        /\ SlopeNum(History) = LineStep * SlopeDen(History)
        /\ FittedValue(History, 0).num = LineStart * FittedValue(History, 0).den
        /\ \A k \in 1..daysToForecast :
              /\ k \in DOMAIN Forecast
              /\ LET y == LineStart + LineStep * (Len(History) + k - 1)
                 IN  Forecast[k].cases = IF y > 0 THEN y ELSE 0

\* C11 witness: a falling line whose continuation is negative inside a
\* horizon of three days, the forecast being 0 there
C11_Witness ==
    /\ LongHistoryDone
    /\ LinearHistory
    /\ LineStep < 0
    /\ daysToForecast = 3
    /\ LineStart + LineStep * (Len(History) + 2) < 0
    /\ Forecast[3].cases = 0

\* C13 - forecastData never throws: for every history (absent, short, or of
\* at least 10 points with any date keys) and every horizon the call
\* completes and returns a sequence.  Checked under SpecForecastAny.
C13_NeverThrows ==
    pc = "done" => ~forecasted.threw

\* C14 - Forecast order: the returned records are in strictly ascending
\* date order, each has isForecast = TRUE, and every forecast date is
\* strictly later than the last historical date.
C14_ForecastOrder ==
    LongHistoryDone =>
        /\ \A j, k \in DOMAIN Forecast :
              j < k => CalendarDay(Forecast[j].date) < CalendarDay(Forecast[k].date)
        /\ \A k \in DOMAIN Forecast :
              /\ Forecast[k].isForecast = TRUE
              /\ CalendarDay(Forecast[k].date) > CalendarDay(History[Len(History)].date)

----------------------------------------------------------------------------
(* Properties of the forecastChartData memo, under SpecChart *)

ChartHistory == countryData.historicalChartData

Timeline == forecastChartData

\* The records of the timeline from position Len(ChartHistory) on
TimelineTail == SubSeq(Timeline, Len(ChartHistory) + 1, Len(Timeline))

\* The number of forecast records in the timeline
ForecastCount ==
    Cardinality({i \in DOMAIN Timeline :
        "isForecast" \in DOMAIN Timeline[i] /\ Timeline[i].isForecast = TRUE})

\* C15 - Combined timeline: forecastChartData is the history restricted to
\* date and cases, in its order, followed by the forecast records; the
\* records of the history part have no isForecast flag and carry the aligned
\* record's date and cases, the records after them have isForecast = TRUE,
\* and they are the forecast of the (restricted) history of the current
\* country data.
C15_CombinedTimeline ==
    countryData.present =>
        /\ Len(Timeline) >= Len(ChartHistory)
        /\ \A i \in DOMAIN ChartHistory :
              /\ DOMAIN Timeline[i] = {"date", "cases"}
              /\ Timeline[i].date = ChartHistory[i].date
              /\ Timeline[i].cases = ChartHistory[i].cases
        /\ \A i \in DOMAIN Timeline :
              i > Len(ChartHistory) =>
                  /\ "isForecast" \in DOMAIN Timeline[i]
                  /\ Timeline[i].isForecast = TRUE
        /\ TimelineTail =
              forecastData([present |-> TRUE,
                            entries |-> [i \in DOMAIN ChartHistory |->
                                            [date |-> ChartHistory[i].date,
                                             cases |-> ChartHistory[i].cases]]],
                           14, tz).value

\* C15 witness: country data of ten or more records is set, and its
\* timeline holds both history and forecast records
C15_Witness ==
    /\ countryData.present
    /\ Len(ChartHistory) >= MinHistory
    /\ Len(Timeline) > Len(ChartHistory)
    /\ ChartHistory[1].cases = 3
    /\ ChartHistory[1].date.fmt = "mdy"

\* C16 - Horizon used by the application: the timeline has exactly 14
\* forecast records when the aligned history has at least 10 records, and
\* none (it is the history) when it has fewer; forecastData called without a
\* horizon returns 7 records.
C16_ApplicationHorizon ==
    /\ countryData.present =>
          IF Len(ChartHistory) >= 10
          THEN ForecastCount = 14 /\ Len(Timeline) = Len(ChartHistory) + 14
          ELSE ForecastCount = 0 /\ Timeline = HistoricalCases(countryData)
    /\ (historicalData.present /\ Len(historicalData.entries) >= 10
            /\ daysToForecast = DefaultHorizon)
          => Len(forecasted.value) = 7

\* C16 witness: the timeline of a history of ten records, after the call
\* without a horizon
C16_Witness ==
    /\ countryData.present
    /\ Len(ChartHistory) = 10
    /\ ForecastCount = 14
    /\ daysToForecast = DefaultHorizon
    /\ Len(forecasted.value) = 7

----------------------------------------------------------------------------
(* Both functions, each applied to its inputs *)

InitPure == InitAlign \/ InitForecast

NextPure == NextAlign \/ NextForecast

SpecPure == InitPure /\ [][NextPure]_vars

\* The result of each call is determined by the arguments of the call:
\* it is the same in every time zone of the host
ResultFromArgumentsOnly ==
    pc = "done" =>
        \A zone \in TimeZones :
            /\ processedData.value # <<>> =>
                  processedData = processHistoricalData(casesData, recoveredData,
                                                        vaccineData, zone)
            /\ forecasted.value # <<>> =>
                  forecasted = forecastData(historicalData, daysToForecast, zone)

\* C17 - Purity: processHistoricalData leaves its three input maps
\* unchanged and forecastData leaves its history unchanged, and neither
\* reads or writes state outside its arguments and result: the calls change
\* nothing but their result, and the result depends on the arguments only.
C17_Purity ==
    /\ [][/\ casesData' = casesData
          /\ recoveredData' = recoveredData
          /\ vaccineData' = vaccineData
          /\ historicalData' = historicalData
          /\ daysToForecast' = daysToForecast
          /\ appVars' = appVars
          /\ ioVars' = ioVars]_vars
    /\ []ResultFromArgumentsOnly

\* C18 - Totality and non-negativity of aligned records: every record
\* returned by processHistoricalData has the four fields date, cases,
\* recovered and vaccines, and for inputs whose values are non-negative
\* integers the three metrics are non-negative integers.
C18_TotalRecords ==
    pc = "done" =>
        \A i \in DOMAIN Records :
            /\ DOMAIN Records[i] = {"date", "cases", "recovered", "vaccines"}
            /\ Records[i].date \in AllKeys
            /\ Records[i].cases \in Nat
            /\ Records[i].recovered \in Nat
            /\ Records[i].vaccines \in Nat

\* C18 witness: a record whose date is missing from two of the inputs, one
\* of them absent altogether
C18_Witness ==
    /\ pc = "done"
    /\ ~vaccineData.present
    /\ recoveredData.present
    /\ \E i \in DOMAIN Records :
          /\ HasKey(casesData, Records[i].date)
          /\ ~HasKey(recoveredData, Records[i].date)
          /\ Records[i].cases > 0

\* C19 - Horizon monotonicity: for a history of at least 10 points and
\* horizons h1 <= h2, forecastData(history, h1) is the first h1 records of
\* forecastData(history, h2): a larger horizon only appends records.
C19_HorizonMonotonicity ==
    LongHistoryDone =>
        \A h1 \in 0..daysToForecast :
            forecastData(historicalData, h1, tz).value = SubSeq(Forecast, 1, h1)

\* C19 witness: a forecast of three days, of which the forecasts of one and
\* of two days are proper prefixes
C19_Witness ==
    /\ LongHistoryDone
    /\ daysToForecast = 3
    /\ Len(Forecast) = 3
    /\ Forecast[1].cases # Forecast[3].cases
    /\ Len(forecastData(historicalData, 2, tz).value) = 2

\* The raw fitted value of the k-th forecast, m * (n + k - 1) + b, as num / den
RawValue(k) == FittedValue(History, Len(History) + k - 1)

\* c is the integer nearest to max(0, num / den), a half going up
ClampedThenRounded(v, c) ==
    LET p == IF v.num > 0 THEN v.num ELSE 0
    IN  /\ c \in Nat
        /\ 2 * v.den * c - v.den <= 2 * p
        /\ 2 * p < 2 * v.den * c + v.den

\* C20 - Clamp/round agreement: for every raw fitted value v reachable from
\* a history, max(0, round(v)), which forecastData computes, is the integer
\* round(max(0, v)), also for v in (-0.5, 0) and at exact halves.
C20_ClampRoundAgreement ==
    LongHistoryDone =>
        \A k \in DOMAIN Forecast :
            ClampedThenRounded(RawValue(k), Forecast[k].cases)

\* The raw value of the k-th forecast is an exact half
HalfAt(k) ==
    /\ (2 * RawValue(k).num) % RawValue(k).den = 0
    /\ RawValue(k).num % RawValue(k).den # 0

\* C20 witness: a forecast with a raw value strictly between -0.5 and 0 and
\* with a raw value that is an exact half
C20_Witness ==
    /\ LongHistoryDone
    /\ \E k \in DOMAIN Forecast :
          /\ -RawValue(k).den < 2 * RawValue(k).num
          /\ RawValue(k).num < 0
          /\ Forecast[k].cases = 0
    /\ \E k \in DOMAIN Forecast : HalfAt(k)

\* C21 - Division-by-zero guard: the slope division of forecastData is
\* performed only for histories that pass the short-history check, these
\* have at least 10 points, and for them the denominator
\* n * sumX2 - sumX * sumX is strictly positive.
C21_DenominatorPositive ==
    (pc = "done" /\ ~TooShort(historicalData)) =>
        /\ Len(History) >= 10
        /\ SlopeDen(History) > 0

\* C21 witness: the division has been performed for a history of ten points,
\* whose denominator is 10 * 285 - 45 * 45
C21_Witness ==
    /\ pc = "done"
    /\ ~TooShort(historicalData)
    /\ Len(History) = 10
    /\ SlopeDen(History) = 825
    /\ Len(Forecast) > 0

----------------------------------------------------------------------------
(* Properties of fetchDataForCountry, under SpecFetch *)

\* The country request succeeded
CountrySucceeded == Ok(countryResponse)

\* The series the historical and the vaccine request delivered, Null for a
\* request that failed or returned no timeline
DeliveredCases ==
    IF Ok(historicalResponse) /\ historicalResponse.body.present
    THEN historicalResponse.body.cases ELSE Null

DeliveredRecovered ==
    IF Ok(historicalResponse) /\ historicalResponse.body.present
    THEN historicalResponse.body.recovered ELSE Null

DeliveredVaccines ==
    IF Ok(vaccineResponse) THEN vaccineResponse.body ELSE Null

\* C22 - Missing source in the fetch pipeline: when the country request
\* succeeds, a historical or vaccine request that fails or returns no
\* timeline raises no error: the result is returned with historicalChartData
\* the alignment of the series that are present and totalVaccinated = 0 when
\* the vaccine series is absent.  Only a failed country request makes the
\* call fail.
C22_MissingSource ==
    pc = "done" =>
        /\ fetched.threw <=> ~CountrySucceeded
        /\ CountrySucceeded =>
              /\ fetched.value.historicalChartData =
                    processHistoricalData(DeliveredCases, DeliveredRecovered,
                                          DeliveredVaccines, tz).value
              /\ ~DeliveredVaccines.present => fetched.value.totalVaccinated = 0

----------------------------------------------------------------------------
(* Properties of the getData effect, under SpecApp *)

\* No invocation of getData is awaiting a fetch
Quiescent == \A id \in DOMAIN calls : ~InFlight(calls[id])

\* The invocation started last has completed without an error
LatestSucceeded == calls # <<>> /\ calls[Len(calls)].pc = "done"

\* C23 - Selected-country consistency under overlapping refreshes: once no
\* fetch is in flight and the latest fetch succeeded, countryData is the data
\* of the currently selected country, whatever the order in which the
\* responses of overlapping invocations arrive.
C23_SelectedCountryConsistency ==
    (Quiescent /\ LatestSucceeded) =>
        /\ countryData.present
        /\ countryData.countryInfo = selectedCountry

\* The fetch that invocation id awaits settles
Settle(id) ==
    /\ id \in DOMAIN calls
    /\ MainSucceeds(id) \/ MainFails(id) \/ CompSucceeds(id) \/ CompFails(id)

\* Every fetch is answered or fails after some time
SpecAppFair ==
    SpecApp /\ \A id \in 1..MaxInvocations : WF_vars(Settle(id))

\* Invocation id has started and not yet finished
Running(id) == id \in DOMAIN calls /\ InFlight(calls[id])

\* Invocation id has run its finally block
Finished(id) == id \in DOMAIN calls /\ ~InFlight(calls[id])

\* C24 - Loading flag: loading is TRUE in every state in which a getData
\* invocation has started and not yet finished, and every invocation,
\* whether its fetches succeed or fail, eventually finishes, setting loading
\* to FALSE.
C24_LoadingFlag ==
    /\ []((\E id \in DOMAIN calls : Running(id)) => loading)
    /\ \A id \in 1..MaxInvocations : Running(id) ~> (Finished(id) /\ ~loading)

\* The data a failed refresh must leave alone
RefreshedData == <<countryData, compareCountryData, lastUpdated>>

\* C25 - Refresh failure leaves data untouched: when the main country fetch
\* of a getData invocation fails, error is set to a non-empty message, the
\* comparison fetch is not attempted (the invocation ends there), and the
\* invocation leaves countryData, compareCountryData and lastUpdated as they
\* were; error is reset to null at the start of every invocation.
C25_RefreshFailure ==
    [][/\ \A id \in DOMAIN calls :
             /\ (calls[id].pc = "main" /\ calls'[id].pc # "main") =>
                   \/ /\ calls'[id].pc = "failed"
                      /\ error'.present
                      /\ error'.message # ""
                      /\ RefreshedData' = RefreshedData
                   \/ /\ calls'[id].pc \in {"comp", "done"}
                      /\ error' = error
                      /\ countryData'.present
             /\ calls[id].pc = "failed" => calls'[id].pc = "failed"
       /\ Len(calls') > Len(calls) =>
             /\ ~error'.present
             /\ RefreshedData' = RefreshedData]_vars

\* C25 witness: after a successful refresh, a later invocation without a
\* comparison country has failed: the error is set and the data of the
\* earlier refresh is still there
C25_Witness ==
    /\ Quiescent
    /\ Len(calls) = 2
    /\ calls[1].pc = "done"
    /\ calls[2].pc = "failed"
    /\ calls[2].compareCountry = ""
    /\ error.present
    /\ countryData.present
    /\ lastUpdated = 1

\* C26 - Comparison data reset: on every successful completion of getData,
\* compareCountryData is null if the comparison country is empty or equal to
\* the selected one, and otherwise the data fetched for the comparison
\* country; so after a quiescent successful refresh compareCountryData is
\* non-null only for a comparison country different from the selected one.
C26_ComparisonReset ==
    /\ [][\A id \in DOMAIN calls :
             (InFlight(calls[id]) /\ calls'[id].pc = "done") =>
                 IF Comparing(calls[id])
                 THEN /\ compareCountryData'.present
                      /\ compareCountryData'.countryInfo = calls[id].compareCountry
                 ELSE compareCountryData' = NoCountry]_vars
    /\ []((Quiescent /\ LatestSucceeded /\ compareCountryData.present) =>
             (compareCountry # "" /\ compareCountry # selectedCountry))

----------------------------------------------------------------------------
(* Properties of AIAssistant, under SpecAssistantFair *)

\* The texts an assistant message can carry
AssistantTexts ==
    {o.text : o \in {o \in ApiOutcomes : o.kind = "reply"}}
        \cup {SorryText, ConnectErrorText}

\* The messages alternate user, assistant, starting with user
Alternating ==
    \A i \in DOMAIN messages :
        messages[i].role = IF i % 2 = 1 THEN "user" ELSE "assistant"

\* C27 - Assistant conversation protocol: sendMessage with blank input
\* changes nothing; otherwise it appends exactly one user message and sets
\* isSending, and eventually appends exactly one assistant message (the
\* reply or a fallback text) and resets isSending.  At most one request is in
\* flight, and the messages alternate user, assistant, starting with user.
C27_AssistantProtocol ==
    /\ [][/\ (~isSending /\ Trim(input) = <<>>) =>
                 <<messages, isSending, requests>>' = <<messages, isSending, requests>>
          /\ (~isSending /\ messages' # messages) =>
                 /\ messages' = Append(messages, [role |-> "user", text |-> input])
                 /\ isSending'
                 /\ Len(requests') = 1
          /\ (isSending /\ <<messages, isSending>>' # <<messages, isSending>>) =>
                 /\ \E text \in AssistantTexts :
                       messages' = Append(messages, [role |-> "assistant", text |-> text])
                 /\ ~isSending'
                 /\ requests' = <<>>]_vars
    /\ [](Len(requests) <= 1 /\ (isSending <=> requests # <<>>) /\ Alternating)
    /\ (isSending ~> ~isSending)

\* C27 witness: two questions, one typed with a leading blank, have been
\* answered, one by the text for an empty reply and one by the text for a
\* network error
C27_Witness ==
    /\ ~isSending
    /\ Len(messages) = 4
    /\ messages[1].text = <<" ", "a">>
    /\ messages[2].text = SorryText
    /\ messages[4].text = ConnectErrorText

----------------------------------------------------------------------------
(* Properties of the combinedChartData memo, under SpecApp *)

SelectedSequence == IF countryData.present THEN countryData.historicalChartData ELSE <<>>

ComparisonSequence ==
    IF compareCountryData.present THEN compareCountryData.historicalChartData ELSE <<>>

DatesOf(records) == {records[i].date : i \in DOMAIN records}

\* The entry has the three properties of the country called name, with the
\* values of the record of its date in records
Carries(entry, name, records) ==
    \E i \in DOMAIN records :
        /\ records[i].date = entry.date
        /\ \A k \in DOMAIN CountryFields(name, records[i]) :
              /\ k \in DOMAIN entry.fields
              /\ entry.fields[k] = CountryFields(name, records[i])[k]

\* C28 - Two-country merge: combinedChartData has exactly one entry per
\* distinct date key of the selected country's or the comparison country's
\* aligned sequence, sorted ascending by date; an entry carries the selected
\* country's three values iff its date is in that country's sequence and the
\* comparison country's three values iff its date is in the comparison
\* sequence; it is empty when countryData has no historical data.
C28_TwoCountryMerge ==
    IF ~countryData.present THEN combinedChartData = <<>>
    ELSE /\ DatesOf(combinedChartData) =
                DatesOf(SelectedSequence) \cup DatesOf(ComparisonSequence)
         /\ \A i, j \in DOMAIN combinedChartData :
                i < j => CalendarDay(combinedChartData[i].date)
                            < CalendarDay(combinedChartData[j].date)
         /\ \A i \in DOMAIN combinedChartData :
                /\ combinedChartData[i].date \in DatesOf(SelectedSequence)
                      <=> Carries(combinedChartData[i], selectedCountry, SelectedSequence)
                /\ combinedChartData[i].date \in DatesOf(ComparisonSequence)
                      <=> Carries(combinedChartData[i], compareCountry, ComparisonSequence)

====
